---- MODULE Spec2Model ----
(***************************************************************************)
(* Model of mf_daily_performance.py: find_best_scheme (name matching),     *)
(* and the per-query loop of analyze_funds (fetch, align with the          *)
(* benchmark, metrics, summary record, detail sheet).                      *)
(*                                                                         *)
(* Representation.                                                         *)
(*  - A Python str is a sequence of one-character strings, over the        *)
(*    characters up to U+00FF.                                             *)
(*  - A float of the frames and metrics is an IEEE-754 binary64 value,     *)
(*    <<s, m, e>> for s * m * 2^e, and every operation on it rounds as the *)
(*    hardware does (see below).  Python's None is the empty tuple <<>>;   *)
(*    an optional object is <<>> (None) or <<v>>.                          *)
(*  - A similarity score is the double nearest to a fraction of two small  *)
(*    integers; it is held as that fraction, which orders and compares as  *)
(*    the double does.                                                     *)
(*  - A date is a day number.                                              *)
(***************************************************************************)
EXTENDS Integers, Sequences, FiniteSets, TLC

VARIABLES
    mf_list,       \* the catalog: sequence of [schemeCode, schemeName]
    nifty_df,      \* benchmark frame: sequence of [date, Open, Close, pct]
    fund_queries,  \* the query list
    qi,            \* index of the query being processed (1-based)
    pc,            \* position inside the loop body
    best,          \* result of find_best_scheme: <<entry>> or None
    score,         \* its score
    meta,          \* details.get('meta', {}): <<dict>>, or None for null
    data,          \* details['data'] of the fetched scheme (raw points)
    merged,        \* the aligned frame of the current query
    m,             \* metric locals of the current query
    summary_rows,  \* the summary collection
    sheets,        \* the workbook: sheet name -> rows written
    log            \* one diagnostic per processed query, in order

vars == <<mf_list, nifty_df, fund_queries, qi, pc, best, score, meta, data,
          merged, m, summary_rows, sheets, log>>

None == <<>>

----------------------------------------------------------------------------
(* Similarity scores: 2.0 * matches / length is one correctly rounded      *)
(* division of two integers below 400, so two scores are equal or ordered  *)
(* as doubles exactly as the fractions are.                                *)

Abs(x) == IF x < 0 THEN -x ELSE x

RECURSIVE GCD(_, _)
GCD(a, b) == IF b = 0 THEN a ELSE GCD(b, a % b)

\* n/d in lowest terms, d > 0
Rat(n, d) ==
    LET s == IF d < 0 THEN -1 ELSE 1
        g == GCD(Abs(n), Abs(d))
    IN  <<(s * n) \div g, (s * d) \div g>>

RatInt(k) == <<k, 1>>
RatLt(x, y) == x[1] * y[2] < y[1] * x[2]
RatLe(x, y) == x[1] * y[2] <= y[1] * x[2]
----------------------------------------------------------------------------
(* Natural numbers of any size, for the significands of doubles:           *)
(* little-endian sequences of limbs in 0..LimbBase-1 with no zero limb at  *)
(* the top; <<>> is 0.                                                     *)

LimbBits == 15
LimbBase == 32768

\* the element of a one-element set.  Val({e : v \in {arg}}) is e with v
\* the value of arg: the argument is computed once, before the body that
\* uses it, as Python computes an operand before the operation
Val(S) == CHOOSE r \in S : TRUE

RECURSIVE Pow2(_)
Pow2(n) == IF n = 0 THEN 1 ELSE 2 * Pow2(n - 1)

RECURSIVE BNorm(_)
BNorm(a) ==
    Val({ IF x # <<>> /\ x[Len(x)] = 0
          THEN BNorm(SubSeq(x, 1, Len(x) - 1)) ELSE x : x \in {a} })

RECURSIVE BFromInt(_)
BFromInt(n) == IF n = 0 THEN <<>>
               ELSE <<n % LimbBase>> \o BFromInt(n \div LimbBase)

RECURSIVE BCmpAt(_, _, _)
BCmpAt(a, b, i) ==
    IF i = 0 THEN 0
    ELSE IF a[i] < b[i] THEN -1
    ELSE IF a[i] > b[i] THEN 1
    ELSE BCmpAt(a, b, i - 1)

\* -1, 0, 1 as a < b, a = b, a > b
BCmp(a, b) ==
    Val({ IF Len(x) < Len(y) THEN -1
          ELSE IF Len(x) > Len(y) THEN 1
          ELSE BCmpAt(x, y, Len(x)) : x \in {a}, y \in {b} })

RECURSIVE BAddAt(_, _, _, _)
BAddAt(a, b, i, c) ==
    IF i > Len(a) /\ i > Len(b) THEN (IF c = 0 THEN <<>> ELSE <<c>>)
    ELSE Val({ <<t % LimbBase>> \o BAddAt(a, b, i + 1, t \div LimbBase) :
               t \in {(IF i <= Len(a) THEN a[i] ELSE 0)
                      + (IF i <= Len(b) THEN b[i] ELSE 0) + c} })

BAdd(a, b) == Val({ BAddAt(x, y, 1, 0) : x \in {a}, y \in {b} })

\* a - b for a >= b
RECURSIVE BSubAt(_, _, _, _)
BSubAt(a, b, i, c) ==
    IF i > Len(a) THEN <<>>
    ELSE Val({ <<t % LimbBase>>
               \o BSubAt(a, b, i + 1, IF t < 0 THEN 1 ELSE 0) :
               t \in {a[i] - (IF i <= Len(b) THEN b[i] ELSE 0) - c} })

BSub(a, b) == Val({ BNorm(BSubAt(x, y, 1, 0)) : x \in {a}, y \in {b} })

\* a * k + c for one limb k
RECURSIVE BMulSmallAt(_, _, _, _)
BMulSmallAt(a, k, i, c) ==
    IF i > Len(a) THEN (IF c = 0 THEN <<>> ELSE <<c>>)
    ELSE Val({ <<t % LimbBase>> \o BMulSmallAt(a, k, i + 1, t \div LimbBase) :
               t \in {a[i] * k + c} })

BMulSmall(a, k) ==
    Val({ BNorm(BMulSmallAt(x, y, 1, 0)) : x \in {a}, y \in {k} })

RECURSIVE BMulAt(_, _, _)
BMulAt(a, b, j) ==
    IF j > Len(b) THEN <<>>
    ELSE BAdd(BMulSmallAt(a, b[j], 1, 0), <<0>> \o BMulAt(a, b, j + 1))

BMul(a, b) ==
    Val({ IF x = <<>> \/ y = <<>> THEN <<>> ELSE BNorm(BMulAt(x, y, 1)) :
          x \in {a}, y \in {b} })

\* a * 2^n
BShl(a, n) ==
    Val({ IF x = <<>> THEN <<>>
          ELSE [i \in 1..(k \div LimbBits) |-> 0]
               \o BMulSmall(x, Pow2(k % LimbBits)) : x \in {a}, k \in {n} })

\* quotient of a by one limb k, limbs i..1 of a to go, r the running remainder
RECURSIVE BDivSmallAt(_, _, _, _)
BDivSmallAt(a, k, i, r) ==
    IF i = 0 THEN <<>>
    ELSE Val({ BDivSmallAt(a, k, i - 1, t % k) \o <<t \div k>> :
               t \in {r * LimbBase + a[i]} })

\* floor(a / 2^n)
BShr(a, n) ==
    Val({ IF k \div LimbBits >= Len(x) THEN <<>>
          ELSE BNorm(BDivSmallAt(SubSeq(x, (k \div LimbBits) + 1, Len(x)),
                                 Pow2(k % LimbBits),
                                 Len(x) - (k \div LimbBits), 0)) :
          x \in {a}, k \in {n} })

\* a mod 2^n
BLow(a, n) ==
    Val({ IF k \div LimbBits >= Len(x) THEN x
          ELSE BNorm(SubSeq(x, 1, k \div LimbBits)
                     \o <<x[(k \div LimbBits) + 1] % Pow2(k % LimbBits)>>) :
          x \in {a}, k \in {n} })

RECURSIVE BitLenInt(_)
BitLenInt(n) == IF n = 0 THEN 0 ELSE 1 + BitLenInt(n \div 2)

BBitLen(a) ==
    Val({ IF x = <<>> THEN 0
          ELSE LimbBits * (Len(x) - 1) + BitLenInt(x[Len(x)]) : x \in {a} })

RECURSIVE TzInt(_)
TzInt(n) == IF n % 2 = 1 THEN 0 ELSE 1 + TzInt(n \div 2)

\* number of trailing zero bits of a > 0
RECURSIVE BTz(_, _)
BTz(a, i) == IF a[i] = 0 THEN LimbBits + BTz(a, i + 1) ELSE TzInt(a[i])

\* one digit of the long division: the q with q * b <= r < (q + 1) * b, for
\* r < LimbBase * b and the top limb of b at least LimbBase / 2
RECURSIVE QCorrect(_, _, _)
QCorrect(r, b, qhat) ==
    IF BCmp(BMulSmall(b, qhat), r) > 0 THEN QCorrect(r, b, qhat - 1) ELSE qhat

QDigit(r, b) ==
    Val({ IF BCmp(x, y) < 0 THEN 0
          ELSE LET n == Len(y)
                   top == (IF Len(x) > n THEN x[n + 1] ELSE 0) * LimbBase + x[n]
                   qhat == IF top \div y[n] > LimbBase - 1
                           THEN LimbBase - 1 ELSE top \div y[n]
               IN  QCorrect(x, y, qhat) : x \in {r}, y \in {b} })

\* <<a div b, a mod b>> by long division, limbs i..1 of a to bring down
RECURSIVE BDivAt(_, _, _, _)
BDivStep(a, b, i, r, qd) ==
    Val({ <<rest[1] \o <<qd>>, rest[2]>> :
          rest \in {BDivAt(a, b, i - 1, BSub(r, BMulSmall(b, qd)))} })

BDivAt(a, b, i, rem) ==
    IF i = 0 THEN <<<<>>, rem>>
    ELSE Val({ Val({ BDivStep(a, b, i, r, qd) : qd \in {QDigit(r, b)} }) :
               r \in {BNorm(<<a[i]>> \o rem)} })

\* <<a div b, (a mod b) # 0>> for b > 0
BDivMod(a, b) ==
    Val({ Val({ <<BNorm(qr[1]), qr[2] # <<>>>> :
                qr \in {BDivAt(x, y, Len(x), <<>>)} }) :
          x \in {BShl(a, LimbBits - BitLenInt(b[Len(b)]))},
          y \in {BShl(b, LimbBits - BitLenInt(b[Len(b)]))} })

\* floor(sqrt(n)) by Newton's iteration from above
RECURSIVE BSqrtFrom(_, _)
BSqrtNext(n, x, y) ==
    Val({ IF BCmp(t, x) >= 0 THEN x ELSE BSqrtFrom(n, t) : t \in {y} })
BSqrtFrom(n, x) ==
    Val({ BSqrtNext(n, t, BShr(BAdd(t, BDivMod(n, t)[1]), 1)) : t \in {x} })

BSqrt(n) ==
    Val({ IF x = <<>> THEN <<>>
          ELSE BSqrtFrom(x, BShl(<<1>>, (BBitLen(x) + 1) \div 2)) : x \in {n} })

----------------------------------------------------------------------------
(* IEEE-754 binary64, the float64 of numpy and pandas.  A finite non-zero  *)
(* double is <<s, m, e>>, the number s * m * 2^e with s in {-1, 1} and m   *)
(* odd; 0.0 is <<0, <<>>, 0>> and -0.0 is <<0, <<>>, -1>>; NaN and the     *)
(* infinities are <<2, <<>>, 0>> and <<3s, <<>>, 0>>.  Every operation is  *)
(* the exact result rounded to the nearest double, ties to even: to 53     *)
(* significant bits, to a multiple of 2^-1074 below 2^-1022 (subnormals),  *)
(* and to an infinity from 2^1024 on.                                      *)

Precision == 53
\* every finite double is below 2^MaxExp and a multiple of 2^MinExp
MaxExp == 1024
MinExp == -1074

Zero == <<0, <<>>, 0>>
NegZero == <<0, <<>>, -1>>
NaN == <<2, <<>>, 0>>
Inf(s) == <<3 * s, <<>>, 0>>

IsNaN(x) == x = NaN
IsInf(x) == x[1] \in {3, -3}
IsFinite(x) == x[1] \in {-1, 0, 1}
IsZero(x) == x[1] = 0
\* -1, 0, 1 as x < 0, x = 0 (either zero), x > 0
FSign(x) == Val({ IF s > 0 THEN 1 ELSE IF s < 0 THEN -1 ELSE 0 : s \in {x[1]} })
\* the sign bit of x, as -1 or 1
SignBit(x) == IF x[1] = 0 THEN (IF x[3] < 0 THEN -1 ELSE 1)
              ELSE IF x[1] < 0 THEN -1 ELSE 1
SignedZero(s) == IF s < 0 THEN NegZero ELSE Zero

\* a rounded to its top prec bits (ties to even), as <<r, d>> for r * 2^d;
\* prec <= 0 leaves no bit of a
BRound(a, prec) ==
    Val({ LET d == BBitLen(x) - prec
          IN  IF d <= 0 THEN <<x, 0>>
              ELSE Val({ IF c > 0 \/ (c = 0 /\ hi # <<>> /\ hi[1] % 2 = 1)
                         THEN <<BAdd(hi, <<1>>), d>> ELSE <<hi, d>> :
                         hi \in {BShr(x, d)},
                         c \in {BCmp(BLow(x, d), BShl(<<1>>, d - 1))} }) :
          x \in {a} })

\* the double of sign s for the rounded magnitude r * 2^e
FRange(s, r, e) ==
    IF r = <<>> THEN SignedZero(s)
    ELSE IF BBitLen(r) + e > MaxExp THEN Inf(s)
    ELSE Val({ <<s, BShr(r, tz), e + tz>> : tz \in {BTz(r, 1)} })

\* bits a double holds of a magnitude below 2^p
PrecisionAt(p) == IF p - Precision >= MinExp THEN Precision ELSE p - MinExp

\* the double nearest to s * a * 2^e, for s in {-1, 1}
FMake(s, a, e) ==
    Val({ IF x = <<>> THEN SignedZero(s)
          ELSE Val({ FRange(s, r[1], e + r[2]) :
                     r \in {BRound(x, PrecisionAt(BBitLen(x) + e))} }) :
          x \in {a} })

FInt(k) == FMake(IF k < 0 THEN -1 ELSE 1, BFromInt(IF k < 0 THEN -k ELSE k), 0)

FNeg(x) ==
    Val({ IF IsNaN(u) THEN NaN
          ELSE IF IsZero(u) THEN SignedZero(-SignBit(u))
          ELSE <<-u[1], u[2], u[3]>> : u \in {x} })
FAbs(x) ==
    Val({ IF IsNaN(u) THEN NaN
          ELSE IF IsZero(u) THEN Zero
          ELSE <<(IF u[1] < 0 THEN -u[1] ELSE u[1]), u[2], u[3]>> : u \in {x} })

\* -1, 0, 1 as |x| < |y|, |x| = |y|, |x| > |y| for finite non-zero x, y
MagCmp(x, y) ==
    LET px == x[3] + BBitLen(x[2])
        py == y[3] + BBitLen(y[2])
    IN  IF px < py THEN -1
        ELSE IF px > py THEN 1
        ELSE IF x[3] <= y[3] THEN BCmp(x[2], BShl(y[2], y[3] - x[3]))
        ELSE BCmp(BShl(x[2], x[3] - y[3]), y[2])

\* -1, 0, 1 as x < y, x = y, x > y for x, y not NaN
FCmp(x, y) ==
    Val({ IF FSign(u) # FSign(v) THEN (IF FSign(u) < FSign(v) THEN -1 ELSE 1)
          ELSE IF FSign(u) = 0 THEN 0
          ELSE IF IsInf(u) \/ IsInf(v)
          THEN (IF IsInf(u) /\ IsInf(v) THEN 0
                ELSE IF IsInf(u) THEN FSign(u) ELSE -FSign(u))
          ELSE FSign(u) * MagCmp(u, v) : u \in {x}, v \in {y} })

FLt(x, y) ==
    Val({ ~IsNaN(u) /\ ~IsNaN(v) /\ FCmp(u, v) < 0 : u \in {x}, v \in {y} })
FLe(x, y) ==
    Val({ ~IsNaN(u) /\ ~IsNaN(v) /\ FCmp(u, v) <= 0 : u \in {x}, v \in {y} })
FEq(x, y) ==
    Val({ ~IsNaN(u) /\ ~IsNaN(v) /\ FCmp(u, v) = 0 : u \in {x}, v \in {y} })

\* p with 2^(p - 1) <= |x| < 2^p, for finite non-zero x
Top(x) == x[3] + BBitLen(x[2])

\* the sum of two finite non-zero doubles; an operand below a quarter of
\* the last place of the other leaves the other as it is (FAdd)
FAddFinite(x, y, e) ==
    Val({ IF x[1] = y[1] THEN FMake(x[1], BAdd(a, b), e)
          ELSE IF BCmp(a, b) = 0 THEN Zero
          ELSE IF BCmp(a, b) > 0 THEN FMake(x[1], BSub(a, b), e)
          ELSE FMake(y[1], BSub(b, a), e) :
          a \in {BShl(x[2], x[3] - e)}, b \in {BShl(y[2], y[3] - e)} })

FAdd(x, y) ==
    Val({ IF IsNaN(u) \/ IsNaN(v) THEN NaN
          ELSE IF IsInf(u) THEN (IF IsInf(v) /\ v # u THEN NaN ELSE u)
          ELSE IF IsInf(v) THEN v
          ELSE IF IsZero(u) /\ IsZero(v)
          THEN (IF SignBit(u) = SignBit(v) THEN u ELSE Zero)
          ELSE IF IsZero(u) THEN v
          ELSE IF IsZero(v) THEN u
          ELSE IF Top(u) - Top(v) > Precision + 3 THEN u
          ELSE IF Top(v) - Top(u) > Precision + 3 THEN v
          ELSE FAddFinite(u, v, IF u[3] < v[3] THEN u[3] ELSE v[3]) :
          u \in {x}, v \in {y} })

FSub(x, y) == FAdd(x, FNeg(y))

FMul(x, y) ==
    Val({ IF IsNaN(u) \/ IsNaN(v) THEN NaN
          ELSE IF IsInf(u) \/ IsInf(v)
          THEN (IF IsZero(u) \/ IsZero(v) THEN NaN
                ELSE Inf(SignBit(u) * SignBit(v)))
          ELSE IF IsZero(u) \/ IsZero(v)
          THEN SignedZero(SignBit(u) * SignBit(v))
          ELSE FMake(u[1] * v[1], BMul(u[2], v[2]), u[3] + v[3]) :
          u \in {x}, v \in {y} })

\* fused multiply-add: x * y + z rounded once.  The product of two
\* finite non-zero doubles is kept whole; a z too small to reach its last
\* bit counts as a bit below it
FFmaFinite(prod, z) ==
    Val({ IF Top(z) - Top(p) > Precision + 3 THEN z
          ELSE IF Top(p) - Top(z) > 2 * Precision + 3
          THEN FAddFinite(p, <<z[1], <<1>>, Top(p) - 2 * Precision - 5>>,
                          IF p[3] < Top(p) - 2 * Precision - 5
                          THEN p[3] ELSE Top(p) - 2 * Precision - 5)
          ELSE FAddFinite(p, z, IF p[3] < z[3] THEN p[3] ELSE z[3]) :
          p \in {prod} })

FFma(x, y, z) ==
    Val({ IF IsNaN(u) \/ IsNaN(v) \/ IsNaN(w) THEN NaN
          ELSE IF ~IsFinite(u) \/ ~IsFinite(v) \/ IsZero(u) \/ IsZero(v)
          THEN FAdd(FMul(u, v), w)
          ELSE IF IsInf(w) THEN w
          ELSE IF IsZero(w) THEN FMul(u, v)
          ELSE FFmaFinite(<<u[1] * v[1], BMul(u[2], v[2]), u[3] + v[3]>>, w) :
          u \in {x}, v \in {y}, w \in {z} })

\* the quotient of two finite non-zero doubles, from k extra bits of the
\* dividend and a sticky bit for the remainder
FDivFinite(x, y, k) ==
    Val({ FMake(x[1] * y[1],
                BAdd(BShl(qr[1], 1), IF qr[2] THEN <<1>> ELSE <<>>),
                x[3] - y[3] - k - 1) :
          qr \in {BDivMod(BShl(x[2], k), y[2])} })

FDiv(x, y) ==
    Val({ IF IsNaN(u) \/ IsNaN(v) THEN NaN
          ELSE IF IsInf(u)
          THEN (IF IsInf(v) THEN NaN ELSE Inf(SignBit(u) * SignBit(v)))
          ELSE IF IsInf(v) THEN SignedZero(SignBit(u) * SignBit(v))
          ELSE IF IsZero(v)
          THEN (IF IsZero(u) THEN NaN ELSE Inf(SignBit(u) * SignBit(v)))
          ELSE IF IsZero(u) THEN SignedZero(SignBit(u) * SignBit(v))
          ELSE LET k0 == Precision + 2 + BBitLen(v[2]) - BBitLen(u[2])
               IN  FDivFinite(u, v, IF k0 < 0 THEN 0 ELSE k0) :
          u \in {x}, v \in {y} })

\* the square root of a finite positive double, from the integer square
\* root of its significand shifted by k bits and a sticky bit
FSqrtFinite(x, k) ==
    Val({ Val({ FMake(1, BAdd(BShl(r, 1),
                              IF BMul(r, r) = n THEN <<>> ELSE <<1>>),
                      ((x[3] - k) \div 2) - 1) : r \in {BSqrt(n)} }) :
          n \in {BShl(x[2], k)} })

FSqrt(x) ==
    Val({ IF IsNaN(u) \/ u[1] < 0 THEN NaN
          ELSE IF IsZero(u) \/ IsInf(u) THEN u
          ELSE LET k0 == 2 * (Precision + 2) - BBitLen(u[2])
                   k1 == IF k0 < 0 THEN 0 ELSE k0
               IN  FSqrtFinite(u, IF (u[3] - k1) % 2 = 0 THEN k1 ELSE k1 + 1) :
          u \in {x} })

\* np.rint: the nearest integer, ties to even
FRint(x) ==
    Val({ IF ~IsFinite(u) \/ IsZero(u) \/ u[3] >= 0 THEN u
          ELSE Val({ FMake(u[1],
                           IF c > 0 \/ (c = 0 /\ hi # <<>> /\ hi[1] % 2 = 1)
                           THEN BAdd(hi, <<1>>) ELSE hi, 0) :
                     hi \in {BShr(u[2], -u[3])},
                     c \in {BCmp(BLow(u[2], -u[3]), BShl(<<1>>, -u[3] - 1))} }) :
          u \in {x} })

----------------------------------------------------------------------------
(* Strings.                                                                *)

\* the characters that str.lower() changes, and what it makes of them
UpperChars ==
    << "A", "B", "C", "D", "E", "F", "G", "H", "I", "J", "K", "L", "M",
       "N", "O", "P", "Q", "R", "S", "T", "U", "V", "W", "X", "Y", "Z",
       "À", "Á", "Â", "Ã", "Ä", "Å", "Æ", "Ç", "È", "É", "Ê", "Ë", "Ì",
       "Í", "Î", "Ï", "Ð", "Ñ", "Ò", "Ó", "Ô", "Õ", "Ö", "Ø", "Ù", "Ú",
       "Û", "Ü", "Ý", "Þ" >>
LowerChars ==
    << "a", "b", "c", "d", "e", "f", "g", "h", "i", "j", "k", "l", "m",
       "n", "o", "p", "q", "r", "s", "t", "u", "v", "w", "x", "y", "z",
       "à", "á", "â", "ã", "ä", "å", "æ", "ç", "è", "é", "ê", "ë", "ì",
       "í", "î", "ï", "ð", "ñ", "ò", "ó", "ô", "õ", "ö", "ø", "ù", "ú",
       "û", "ü", "ý", "þ" >>

\* str.lower() of one character
LowerChar(c) ==
    IF \E i \in 1..Len(UpperChars) : UpperChars[i] = c
    THEN LowerChars[CHOOSE i \in 1..Len(UpperChars) : UpperChars[i] = c]
    ELSE c

Lower(s) == [i \in 1..Len(s) |-> LowerChar(s[i])]

\* the characters str.strip() removes (str.isspace): U+0009 to U+000D,
\* U+001C to U+001F, the space, U+0085 and U+00A0
WhiteSpace ==
    { "\t", "\n", "", "\f", "\r", "",
      "", "", "", " ", "", " " }

IsSpace(c) == c \in WhiteSpace

RECURSIVE LStrip(_)
LStrip(s) == IF s # <<>> /\ IsSpace(Head(s)) THEN LStrip(Tail(s)) ELSE s

RECURSIVE RStrip(_)
RStrip(s) == IF s # <<>> /\ IsSpace(s[Len(s)])
             THEN RStrip(SubSeq(s, 1, Len(s) - 1)) ELSE s

\* str.strip()
Strip(s) == RStrip(LStrip(s))

\* the Python test  x in y  on strings
Contains(x, y) ==
    \E i \in 0..(Len(y) - Len(x)) : SubSeq(y, i + 1, i + Len(x)) = x

----------------------------------------------------------------------------
(* difflib.SequenceMatcher(None, a, b).ratio(): no junk, autojunk on.      *)
(* Indices are Python's: a[i] is the model's a[i + 1], ranges are          *)
(* half-open.                                                              *)

\* SequenceMatcher(None, a, b) keeps no index entry for the popular
\* characters of b (autojunk): in a b of AutojunkMin characters or more,
\* those that occur more than len(b) // 100 + 1 times
AutojunkMin == 200

Popular(b) ==
    IF Len(b) >= AutojunkMin
    THEN {c \in {b[j] : j \in 1..Len(b)} :
             Cardinality({j \in 1..Len(b) : b[j] = c}) > (Len(b) \div 100) + 1}
    ELSE {}

\* length of the longest common run starting at a[i], b[j] inside the
\* ranges, over characters of b outside skip
RECURSIVE RunLen(_, _, _, _, _, _, _)
RunLen(a, b, i, j, ahi, bhi, skip) ==
    IF i < ahi /\ j < bhi /\ a[i + 1] = b[j + 1] /\ b[j + 1] \notin skip
    THEN 1 + RunLen(a, b, i + 1, j + 1, ahi, bhi, skip)
    ELSE 0

\* length of the longest common run ending just before a[i], b[j]
RECURSIVE BackLen(_, _, _, _, _, _)
BackLen(a, b, i, j, alo, blo) ==
    IF i > alo /\ j > blo /\ a[i] = b[j]
    THEN 1 + BackLen(a, b, i - 1, j - 1, alo, blo)
    ELSE 0

MaxOf(S) == Val({ CHOOSE x \in T : \A y \in T : y <= x : T \in {S} })
MinOf(S) == Val({ CHOOSE x \in T : \A y \in T : x <= y : T \in {S} })

\* the block the main loop of find_longest_match ends with: the longest
\* run over the indexed characters of b, the earliest in a, then the
\* earliest in b; <<alo, blo, 0>> when there is none
LongestIndexed(a, b, alo, ahi, blo, bhi, pop) ==
    Val({ IF k = 0 THEN <<alo, blo, 0>>
          ELSE Val({ <<i, MinOf({j \in blo..(bhi - 1) :
                                   RunLen(a, b, i, j, ahi, bhi, pop) = k}), k>> :
                     i \in {MinOf({i \in alo..(ahi - 1) :
                                \E j \in blo..(bhi - 1) :
                                    RunLen(a, b, i, j, ahi, bhi, pop) = k})} }) :
          k \in {MaxOf({0} \cup {RunLen(a, b, p[1], p[2], ahi, bhi, pop) :
                                 p \in (alo..(ahi - 1)) \X (blo..(bhi - 1))})} })

\* find_longest_match: that block, extended on both sides by the equal
\* characters next to it, popular ones included (there is no junk)
FindLongestMatch(a, b, alo, ahi, blo, bhi, pop) ==
    Val({ Val({ <<x[1] - back, x[2] - back, x[3] + back + fwd>> :
                back \in {BackLen(a, b, x[1], x[2], alo, blo)},
                fwd \in {RunLen(a, b, x[1] + x[3], x[2] + x[3], ahi, bhi, {})} }) :
          x \in {LongestIndexed(a, b, alo, ahi, blo, bhi, pop)} })

\* total size of get_matching_blocks() over the given ranges
RECURSIVE Matches(_, _, _, _, _, _, _)
MatchesAround(a, b, alo, ahi, blo, bhi, pop, x) ==
    IF x[3] = 0 THEN 0
    ELSE x[3]
         + (IF alo < x[1] /\ blo < x[2]
            THEN Matches(a, b, alo, x[1], blo, x[2], pop) ELSE 0)
         + (IF x[1] + x[3] < ahi /\ x[2] + x[3] < bhi
            THEN Matches(a, b, x[1] + x[3], ahi, x[2] + x[3], bhi, pop) ELSE 0)

Matches(a, b, alo, ahi, blo, bhi, pop) ==
    Val({ MatchesAround(a, b, alo, ahi, blo, bhi, pop, x) :
          x \in {FindLongestMatch(a, b, alo, ahi, blo, bhi, pop)} })

\* SequenceMatcher.ratio(): 2.0 * matches / length, 1.0 when both are empty
Ratio(a, b) ==
    LET length == Len(a) + Len(b)
    IN  IF length = 0 THEN RatInt(1)
        ELSE Rat(2 * Val({ Matches(a, b, 0, Len(a), 0, Len(b), pop) :
                           pop \in {Popular(b)} }), length)

similar(a, b) == Val({ Ratio(x, y) : x \in {Lower(a)}, y \in {Lower(b)} })

----------------------------------------------------------------------------
(* find_best_scheme                                                        *)

\* the list comprehension of line 84
SubstringMatches(fund_list, query_l) ==
    SelectSeq(fund_list, LAMBDA f : Contains(query_l, Lower(f.schemeName)))

\* MaxBySimilar with a later element of equal key replacing the current one
RECURSIVE MaxBySimilar_LastWins(_, _, _)
MaxBySimilar_LastWins(xs, query, cur) ==
    IF xs = <<>> THEN cur
    ELSE MaxBySimilar_LastWins(Tail(xs), query,
             IF RatLe(similar(query, cur.schemeName),
                      similar(query, Head(xs).schemeName))
             THEN Head(xs) ELSE cur)

\* max(xs, key=similar(query, .)) continued from the element cur: a later
\* element replaces cur only when its key is strictly greater
RECURSIVE MaxBySimilar(_, _, _)
MaxBySimilar(xs, query, cur) ==
    IF xs = <<>> THEN cur
    ELSE MaxBySimilar(Tail(xs), query,
             IF RatLt(similar(query, cur.schemeName),
                      similar(query, Head(xs).schemeName))
             THEN Head(xs) ELSE cur)

\* FuzzyScan with a later equal score replacing the best so far
RECURSIVE FuzzyScan_LastWins(_, _, _, _)
FuzzyScan_LastWins(fs, query, b, bs) ==
    IF fs = <<>> THEN [best |-> b, score |-> bs]
    ELSE IF RatLe(bs, similar(query, Head(fs).schemeName))
         THEN FuzzyScan_LastWins(Tail(fs), query, <<Head(fs)>>,
                                 similar(query, Head(fs).schemeName))
         ELSE FuzzyScan_LastWins(Tail(fs), query, b, bs)

\* the fallback loop of lines 93-100, continued from (b, bs)
RECURSIVE FuzzyScan(_, _, _, _)
FuzzyScan(fs, query, b, bs) ==
    IF fs = <<>> THEN [best |-> b, score |-> bs]
    ELSE LET sc == similar(query, Head(fs).schemeName)
         IN  IF RatLt(bs, sc)
             THEN FuzzyScan(Tail(fs), query, <<Head(fs)>>, sc)
             ELSE FuzzyScan(Tail(fs), query, b, bs)

find_best_scheme(fund_list, query) ==
    LET query_l == Strip(Lower(query))
        substring_matches == SubstringMatches(fund_list, query_l)
    IN  IF Len(substring_matches) = 1
        THEN [best |-> <<substring_matches[1]>>, score |-> RatInt(1)]
        ELSE IF Len(substring_matches) > 1
        THEN LET b == MaxBySimilar(Tail(substring_matches), query,
                                   Head(substring_matches))
             IN  [best |-> <<b>>, score |-> similar(query, b.schemeName)]
        ELSE FuzzyScan(fund_list, query, None, RatInt(0))

----------------------------------------------------------------------------
(* The per-fund frame and its alignment with the benchmark                 *)
(* (analyze_funds, lines 158-186).                                         *)

DAYS == 30
Today == DAYS + 10
\* (datetime.today() - timedelta(days=DAYS)) at midnight
start_date == Today - DAYS

\* errors='coerce': a date string that does not parse is NaT
NaT == <<>>

\* fetch_nifty, line 128
NiftyPct(open, close) == FMul(FDiv(FSub(close, open), open), FInt(100))

\* sort_values('date'): insertion of row r into the sorted frame df
RECURSIVE InsertByDate(_, _)
InsertByDate(df, r) ==
    IF df = <<>> THEN <<r>>
    ELSE IF r.date < Head(df).date THEN <<r>> \o df
    ELSE <<Head(df)>> \o InsertByDate(Tail(df), r)

RECURSIVE SortByDate(_)
SortByDate(df) ==
    IF df = <<>> THEN <<>>
    ELSE InsertByDate(SortByDate(SubSeq(df, 1, Len(df) - 1)), df[Len(df)])

\* lines 158-162: parse, drop NaT / NaN rows, sort ascending by date
CleanFrame(raw) ==
    LET kept == SelectSeq(raw, LAMBDA p : p.date # NaT /\ ~IsNaN(p.nav))
    IN  SortByDate([i \in 1..Len(kept) |->
                       [date |-> kept[i].date[1], NAV |-> kept[i].nav]])

\* line 164
FilterWindow(df, start) == SelectSeq(df, LAMBDA r : r.date >= start)

\* line 174; a NaN operand gives NaN
FundPct(start, end) == FMul(FDiv(FSub(end, start), start), FInt(100))

\* WithFundColumns without the shift: Fund Start is the row's own NAV
WithFundColumns_NoShift(df) ==
    [i \in 1..Len(df) |->
        [date |-> df[i].date, FundStart |-> df[i].NAV, FundEnd |-> df[i].NAV,
         FundPct |-> FundPct(df[i].NAV, df[i].NAV)]]

\* lines 171-174: Fund Start is NAV.shift(1) of the frame it is applied to
WithFundColumns(df) ==
    [i \in 1..Len(df) |->
        LET st == IF i = 1 THEN NaN ELSE df[i - 1].NAV
        IN  [date |-> df[i].date, FundStart |-> st, FundEnd |-> df[i].NAV,
             FundPct |-> FundPct(st, df[i].NAV)]]

\* the benchmark rows joined to one fund row, in benchmark order
RECURSIVE JoinRow(_, _)
JoinRow(r, nifty) ==
    IF nifty = <<>> THEN <<>>
    ELSE (IF Head(nifty).date = r.date
          THEN <<[date |-> r.date, FundStart |-> r.FundStart,
                  FundEnd |-> r.FundEnd, FundPct |-> r.FundPct,
                  NiftyStart |-> Head(nifty).Open,
                  NiftyEnd |-> Head(nifty).Close,
                  NiftyPct |-> Head(nifty).pct]>>
          ELSE <<>>) \o JoinRow(r, Tail(nifty))

\* lines 178-183: pd.merge(..., on='date', how='inner'), left order kept
RECURSIVE Merge(_, _)
Merge(df, nifty) ==
    IF df = <<>> THEN <<>>
    ELSE JoinRow(Head(df), nifty) \o Merge(Tail(df), nifty)

\* line 186
DropNaChanges(mg) ==
    SelectSeq(mg, LAMBDA r : ~IsNaN(r.FundPct) /\ ~IsNaN(r.NiftyPct))

\* lines 171-186 on the windowed frame
Align(df, nifty) == DropNaChanges(Merge(WithFundColumns(df), nifty))

----------------------------------------------------------------------------
(* Metrics (analyze_funds, lines 192-224).                                 *)

FundCol(mg) == Val({ [i \in 1..Len(t) |-> t[i].FundPct] : t \in {mg} })
NiftyCol(mg) == Val({ [i \in 1..Len(t) |-> t[i].NiftyPct] : t \in {mg} })

\* res + xs[i] + ... + xs[hi], added one by one
RECURSIVE SumFrom(_, _, _, _)
SumFrom(xs, i, hi, res) ==
    Val({ IF i > hi THEN acc ELSE SumFrom(xs, i + 1, hi, FAdd(acc, xs[i])) :
          acc \in {res} })

\* res + xs[i] + xs[i + 8] + ... up to index hi
RECURSIVE Lane(_, _, _, _)
Lane(xs, i, hi, res) ==
    Val({ IF i > hi THEN acc ELSE Lane(xs, i + 8, hi, FAdd(acc, xs[i])) :
          acc \in {res} })

\* numpy's pairwise_sum of the n elements from xs[lo]: one by one below 8
\* elements, eight running sums up to 128 elements, halves above
RECURSIVE PairwiseSum(_, _, _)
PairwiseBlock(xs, lo, n, full) ==
    SumFrom(xs, lo + full, lo + n - 1,
        FAdd(FAdd(FAdd(Lane(xs, lo + 8, lo + full - 1, xs[lo]),
                       Lane(xs, lo + 9, lo + full - 1, xs[lo + 1])),
                  FAdd(Lane(xs, lo + 10, lo + full - 1, xs[lo + 2]),
                       Lane(xs, lo + 11, lo + full - 1, xs[lo + 3]))),
             FAdd(FAdd(Lane(xs, lo + 12, lo + full - 1, xs[lo + 4]),
                       Lane(xs, lo + 13, lo + full - 1, xs[lo + 5])),
                  FAdd(Lane(xs, lo + 14, lo + full - 1, xs[lo + 6]),
                       Lane(xs, lo + 15, lo + full - 1, xs[lo + 7])))))

PairwiseHalves(xs, lo, n, n2) ==
    FAdd(PairwiseSum(xs, lo, n2), PairwiseSum(xs, lo + n2, n - n2))

PairwiseSum(xs, lo, n) ==
    IF n < 8 THEN SumFrom(xs, lo, lo + n - 1, Zero)
    ELSE IF n <= 128 THEN PairwiseBlock(xs, lo, n, n - (n % 8))
    ELSE PairwiseHalves(xs, lo, n, (n \div 2) - ((n \div 2) % 8))

\* ndarray.sum() of a column: the reduction starts from 0.0
NpSum(xs) == FAdd(Zero, PairwiseSum(xs, 1, Len(xs)))

\* Series.mean() of a non-empty column: the sum divided by the count
Mean(xs) == Val({ FDiv(NpSum(col), FInt(Len(col))) : col \in {xs} })

\* The source does not fix the kernel behind np.dot(X, X.T) (the BLAS numpy
\* is built with, or numpy's own loop).  A kernel keeps one running sum, or
\* two over alternating indices that are added at the end, and a step
\* rounds the product and then the sum, or, with a fused multiply-add, the
\* sum only
DotKernels == [fused : BOOLEAN, lanes : {1, 2}]

\* res + xs[i] * ys[i] + xs[i + step] * ys[i + step] + ..., one by one
RECURSIVE DotFrom(_, _, _, _, _, _)
DotFrom(xs, ys, i, step, res, fused) ==
    Val({ IF i > Len(xs) THEN acc
          ELSE DotFrom(xs, ys, i + step, step,
                       IF fused THEN FFma(xs[i], ys[i], acc)
                       ELSE FAdd(acc, FMul(xs[i], ys[i])), fused) :
          acc \in {res} })

\* res plus the running sums from the j-th on
RECURSIVE DotLanes(_, _, _, _, _)
DotLanes(xs, ys, j, res, kernel) ==
    Val({ IF j > kernel.lanes THEN acc
          ELSE DotLanes(xs, ys, j + 1,
                        FAdd(acc, DotFrom(xs, ys, j, kernel.lanes, Zero,
                                          kernel.fused)),
                        kernel) :
          acc \in {res} })

\* one entry of np.dot(X, X.T): the products of the two rows, added up
Dot(xs, ys, kernel) ==
    DotLanes(xs, ys, 2, DotFrom(xs, ys, 1, kernel.lanes, Zero, kernel.fused),
             kernel)

\* np.clip(c, -1, 1)
Clip(c) ==
    Val({ IF IsNaN(x) THEN NaN
          ELSE IF FLt(FInt(1), x) THEN FInt(1)
          ELSE IF FLt(x, FInt(-1)) THEN FInt(-1)
          ELSE x : x \in {c} })

\* line 192: Series.corr (Pearson) is np.corrcoef(xs, ys)[0, 1]: the
\* covariance matrix of the deviations from the means, times 1 / (n - 1)
\* (infinite for one row), divided by the two standard deviations, clipped
Corr(xs, ys, kernel) ==
    Val({ LET n == Len(xs)
              dx == [i \in 1..n |-> FSub(xs[i], avgx)]
              dy == [i \in 1..n |-> FSub(ys[i], avgy)]
              f == IF n - 1 > 0 THEN FDiv(FInt(1), FInt(n - 1)) ELSE Inf(1)
              c00 == FMul(Dot(dx, dx, kernel), f)
              c01 == FMul(Dot(dx, dy, kernel), f)
              c11 == FMul(Dot(dy, dy, kernel), f)
          IN  Clip(FDiv(FDiv(c01, FSqrt(c00)), FSqrt(c11))) :
          avgx \in {Mean(xs)}, avgy \in {Mean(ys)} })

\* lines 193-194
WithPct(mg) ==
    LET eq == {i \in 1..Len(mg) :
                  FSign(mg[i].FundPct) = FSign(mg[i].NiftyPct)}
    IN  FMul(FDiv(FInt(Cardinality(eq)), FInt(Len(mg))), FInt(100))

\* lines 196-197
UpRows(mg) == SelectSeq(mg, LAMBDA r : FLt(Zero, r.NiftyPct))
DownRows(mg) == SelectSeq(mg, LAMBDA r : FLt(r.NiftyPct, Zero))

\* lines 198-201: the mean over a partition, NaN when the mask has no row
MaskedMean(col) == IF col # <<>> THEN Mean(col) ELSE NaN

\* line 203
UpCapture(mg) ==
    Val({ IF ~IsNaN(avg_fund_up) /\ ~IsNaN(avg_nifty_up)
             /\ ~FEq(avg_nifty_up, Zero)
          THEN FMul(FDiv(avg_fund_up, avg_nifty_up), FInt(100))
          ELSE NaN :
          avg_nifty_up \in {MaskedMean(NiftyCol(UpRows(mg)))},
          avg_fund_up \in {MaskedMean(FundCol(UpRows(mg)))} })

\* line 204
DownCapture(mg) ==
    Val({ IF ~IsNaN(avg_fund_down) /\ ~IsNaN(avg_nifty_down)
             /\ ~FEq(avg_nifty_down, Zero)
          THEN FMul(FDiv(FAbs(avg_fund_down), FAbs(avg_nifty_down)),
                    FInt(100))
          ELSE NaN :
          avg_nifty_down \in {MaskedMean(NiftyCol(DownRows(mg)))},
          avg_fund_down \in {MaskedMean(FundCol(DownRows(mg)))} })

(* Rounding, applied when the summary record is built (lines 233-238).    *)

\* round(x, ndigits) of a numpy float64, scale = 10^ndigits: the product
\* with the scale, rounded to the nearest integer (ties to even), divided
\* by the scale
Round(x, scale) == FDiv(FRint(FMul(x, FInt(scale))), FInt(scale))

\* the literals 0.6 and -0.2 of lines 207 and 209
WithMarketMin == FDiv(FInt(6), FInt(10))
AgainstMarketMax == FDiv(FInt(-2), FInt(10))

\* Behavior with the thresholds applied to round(corr, 3)
Behavior_OnRounded(corr) ==
    IF ~IsNaN(corr)
    THEN Val({ IF FLe(WithMarketMin, c) THEN "With Market"
               ELSE IF FLe(c, AgainstMarketMax) THEN "Against Market"
               ELSE "Low/Neutral Corr" : c \in {Round(corr, 1000)} })
    ELSE "Insufficient Data"

\* lines 206-214
Behavior(corr) ==
    IF ~IsNaN(corr)
    THEN IF FLe(WithMarketMin, corr) THEN "With Market"
         ELSE IF FLe(corr, AgainstMarketMax) THEN "Against Market"
         ELSE "Low/Neutral Corr"
    ELSE "Insufficient Data"

\* Tolerance with the thresholds applied to the captures as rounded for
\* the summary record
Tolerance_OnRounded(up_capture, down_capture) ==
    IF ~IsNaN(up_capture) /\ ~IsNaN(down_capture)
    THEN Val({ IF FLt(FInt(100), up) /\ FLt(down, FInt(100)) THEN "High"
               ELSE IF FLt(up, FInt(90)) /\ FLt(FInt(120), down) THEN "Low"
               ELSE "Medium" :
               up \in {Round(up_capture, 10)},
               down \in {Round(down_capture, 10)} })
    ELSE "Unknown"

\* Tolerance with inclusive comparisons for "High"
Tolerance_Inclusive(up_capture, down_capture) ==
    IF ~IsNaN(up_capture) /\ ~IsNaN(down_capture)
    THEN IF FLe(FInt(100), up_capture) /\ FLe(down_capture, FInt(100))
         THEN "High"
         ELSE IF FLt(up_capture, FInt(90)) /\ FLt(FInt(120), down_capture)
         THEN "Low"
         ELSE "Medium"
    ELSE "Unknown"

\* lines 216-224
Tolerance(up_capture, down_capture) ==
    IF ~IsNaN(up_capture) /\ ~IsNaN(down_capture)
    THEN IF FLt(FInt(100), up_capture) /\ FLt(down_capture, FInt(100))
         THEN "High"
         ELSE IF FLt(up_capture, FInt(90)) /\ FLt(FInt(120), down_capture)
         THEN "Low"
         ELSE "Medium"
    ELSE "Unknown"

\* lines 192-224: the metric locals of one fund
Metrics(mg, kernel) ==
    Val({ [corr |-> corr, with_pct |-> WithPct(mg),
           up_capture |-> up_capture, down_capture |-> down_capture,
           behavior |-> Behavior(corr),
           tolerance |-> Tolerance(up_capture, down_capture)] :
          corr \in {Corr(FundCol(mg), NiftyCol(mg), kernel)},
          up_capture \in {UpCapture(mg)},
          down_capture \in {DownCapture(mg)} })

----------------------------------------------------------------------------
(* The summary record and the detail sheet (lines 226-249).                *)

\* RoundOrNone with 0 standing for a missing value
RoundOrNone_Zero(v, scale) == IF ~IsNaN(v) THEN Round(v, scale) ELSE Zero

\* round(v, n) if pd.notna(v) else None
RoundOrNone(v, scale) == IF ~IsNaN(v) THEN Round(v, scale) ELSE None

\* re.sub(r"[:\\/?*\[\]]", "_", name) of line 65
InvalidSheetChars == {":", "\\", "/", "?", "*", "[", "]"}

sanitize_sheet_name(name, max_len) ==
    LET clean == [i \in 1..Len(name) |->
                     IF name[i] \in InvalidSheetChars THEN "_" ELSE name[i]]
    IN  IF Len(clean) > max_len THEN SubSeq(clean, 1, max_len) ELSE clean

\* str() of a non-negative int, as the f-string of line 244 formats it
Digits == <<"0", "1", "2", "3", "4", "5", "6", "7", "8", "9">>

RECURSIVE IntToStr(_)
IntToStr(n) ==
    IF n < 10 THEN <<Digits[n + 1]>>
    ELSE IntToStr(n \div 10) \o <<Digits[(n % 10) + 1]>>

\* line 244
SheetMaxLen == 31
SheetName(f) ==
    sanitize_sheet_name(IntToStr(f.schemeCode) \o <<"_">> \o f.schemeName,
                        SheetMaxLen)

\* dict.get(key, default) on a dict held as a sequence of <<key, value>>
DictGet(d, key, default) ==
    IF \E i \in 1..Len(d) : d[i][1] = key
    THEN d[CHOOSE i \in 1..Len(d) : d[i][1] = key][2]
    ELSE default

\* lines 227-241, md being a dict
SummaryRow(q, f, md, mg, mt) ==
    [Query |-> q, MatchedScheme |-> f.schemeName, SchemeCode |-> f.schemeCode,
     FundHouse |-> DictGet(md, "fund_house", <<>>),
     DataPoints |-> Len(mg),
     Correlation |-> RoundOrNone(mt.corr, 1000),
     WithMarketPct |-> Round(mt.with_pct, 10),
     AvgFundReturn |-> Round(Mean(FundCol(mg)), 10000),
     AvgNiftyReturn |-> Round(Mean(NiftyCol(mg)), 10000),
     UpCapture |-> RoundOrNone(mt.up_capture, 10),
     DownCapture |-> RoundOrNone(mt.down_capture, 10),
     Behavior |-> mt.behavior, MarketTolerance |-> mt.tolerance]

\* DataFrame.to_excel on a writer in write mode: a sheet of that name is
\* created, or, when it exists already, its cells are written over
WriteSheet(book, name, rows) ==
    [n \in DOMAIN book \cup {name} |->
        IF n # name THEN book[n]
        ELSE IF name \in DOMAIN book /\ Len(book[name]) > Len(rows)
        THEN rows \o SubSeq(book[name], Len(rows) + 1, Len(book[name]))
        ELSE rows]

----------------------------------------------------------------------------
(* The loop of analyze_funds (lines 141-253) and the summary sheet         *)
(* (lines 256-271).  One action per outcome of each stage of the body.     *)

q == fund_queries[qi]
scheme == best[1]

EmptyDict == <<>>

\* continue / end of the body: the next query, or the code after the loop
Continue(outcome, rows) ==
    /\ log' = Append(log, [query |-> q, outcome |-> outcome, rows |-> rows])
    /\ qi' = qi + 1
    /\ pc' = IF qi + 1 > Len(fund_queries) THEN "summary" ELSE "match"

\* lines 143-149, a scheme was found
Match ==
    /\ pc = "match"
    /\ LET r == find_best_scheme(mf_list, q)
       IN  /\ r.best # None
           /\ best' = r.best
           /\ score' = r.score
    /\ pc' = "fetch"
    /\ UNCHANGED <<meta, mf_list, nifty_df, fund_queries, qi, data, merged, m,
                   summary_rows, sheets, log>>

\* lines 143-146, find_best_scheme returned None
NoMatch ==
    /\ pc = "match"
    /\ LET r == find_best_scheme(mf_list, q)
       IN  /\ r.best = None
           /\ best' = r.best
           /\ score' = r.score
    /\ Continue("no_match", 0)
    /\ UNCHANGED <<meta, mf_list, nifty_df, fund_queries, data, merged, m,
                   summary_rows, sheets>>

\* line 152 raises (transport error, bad status): lines 251-253
FetchError ==
    /\ pc = "fetch"
    /\ Continue("error", 0)
    /\ UNCHANGED <<meta, mf_list, nifty_df, fund_queries, best, score, data,
                   merged, m, summary_rows, sheets>>

\* lines 152-157, the response holds no points (and no meta)
FetchNoData ==
    /\ pc = "fetch"
    /\ meta' = <<EmptyDict>>
    /\ data' = <<>>
    /\ Continue("no_nav_data", 0)
    /\ UNCHANGED <<mf_list, nifty_df, fund_queries, best, score, merged, m,
                   summary_rows, sheets>>

\* lines 158-167, no row is left in the window
WindowEmpty ==
    /\ pc = "frame"
    /\ FilterWindow(CleanFrame(data), start_date) = <<>>
    /\ Continue("no_points", 0)
    /\ UNCHANGED <<meta, mf_list, nifty_df, fund_queries, best, score, data,
                   merged, m, summary_rows, sheets>>

\* lines 158-189, the aligned frame is empty
AlignEmpty ==
    /\ pc = "frame"
    /\ LET df == FilterWindow(CleanFrame(data), start_date)
       IN  /\ df # <<>>
           /\ Align(df, nifty_df) = <<>>
           /\ merged' = Align(df, nifty_df)
    /\ Continue("no_overlap", 0)
    /\ UNCHANGED <<meta, mf_list, nifty_df, fund_queries, best, score, data, m,
                   summary_rows, sheets>>

\* lines 158-189, the aligned frame has rows
Aligned ==
    /\ pc = "frame"
    /\ LET df == FilterWindow(CleanFrame(data), start_date)
       IN  /\ df # <<>>
           /\ Align(df, nifty_df) # <<>>
           /\ merged' = Align(df, nifty_df)
    /\ pc' = "metrics"
    /\ UNCHANGED <<meta, mf_list, nifty_df, fund_queries, qi, best, score, data,
                   m, summary_rows, sheets, log>>

\* lines 192-241: the metrics and the summary record
Analyse ==
    /\ pc = "metrics"
    /\ meta # None
    /\ \E mt \in {Metrics(merged, kernel) : kernel \in DotKernels} :
           /\ m' = mt
           /\ summary_rows' =
                  Append(summary_rows,
                         SummaryRow(q, scheme, meta[1], merged, mt))
    /\ pc' = "write"
    /\ UNCHANGED <<meta, mf_list, nifty_df, fund_queries, qi, best, score, data,
                   merged, sheets, log>>

\* lines 192-231, the response's meta is null: meta.get of line 231 raises
\* while the record is built, before the append: lines 251-253
AnalyseError ==
    /\ pc = "metrics"
    /\ meta = None
    /\ m' \in {Metrics(merged, kernel) : kernel \in DotKernels}
    /\ Continue("error", Len(merged))
    /\ UNCHANGED <<meta, mf_list, nifty_df, fund_queries, best, score, data,
                   merged, summary_rows, sheets>>

\* lines 244-249
WriteDetail ==
    /\ pc = "write"
    /\ sheets' = WriteSheet(sheets, SheetName(scheme), merged)
    /\ Continue("wrote", Len(merged))
    /\ UNCHANGED <<meta, mf_list, nifty_df, fund_queries, best, score, data,
                   merged, m, summary_rows>>

\* line 248 raises: lines 251-253
WriteError ==
    /\ pc = "write"
    /\ Continue("error", Len(merged))
    /\ UNCHANGED <<meta, mf_list, nifty_df, fund_queries, best, score, data,
                   merged, m, summary_rows, sheets>>

SummarySheet == <<"S", "u", "m", "m", "a", "r", "y">>
NoDataSheet == <<"N", "o", "_", "D", "a", "t", "a">>

\* lines 256-271
WriteSummary ==
    /\ pc = "summary"
    /\ sheets' = IF summary_rows # <<>>
                 THEN WriteSheet(sheets, SummarySheet, summary_rows)
                 ELSE WriteSheet(sheets, NoDataSheet, <<"No valid fund data found.">>)
    /\ pc' = "done"
    /\ UNCHANGED <<meta, mf_list, nifty_df, fund_queries, qi, best, score, data,
                   merged, m, summary_rows, log>>

----------------------------------------------------------------------------
(* Inputs.                                                                 *)

MaxCatalog == 2   \* catalog entries in the matching runs
MaxQueries == 2   \* queries in one run of analyze_funds
MaxPoints == 3    \* raw points of a fund history in the aligning runs
MaxRows == 3      \* rows of an aligned frame in the metrics runs

SeqsUpTo(S, n) == UNION {[1..k -> S] : k \in 0..n}

\* catalog names and queries of the matching runs
NamePool == { <<"a", "b">>, <<"a", "c">>, <<"a", " ", "b">>, <<"A", "x">>,
              <<"b", "x">>, <<"a", "b", "c">> }
QueryPool == { <<"a">>, <<"a", "b">>, <<"a", " ">>, <<"A", "B">>, <<"q">>,
               <<>>, <<"x", "b">>, <<"a", "b", "c">>, <<"a", "b", "c", "\r">> }

\* r.json() of fetch_mf_list: scheme codes are distinct ints
MakeCatalog(names) ==
    [i \in 1..Len(names) |-> [schemeCode |-> 100 + i, schemeName |-> names[i]]]

\* a name of 200 characters, each of them popular
Repetitive == [i \in 1..AutojunkMin |-> IF i % 2 = 1 THEN "a" ELSE "b"]

Catalogs ==
    {MakeCatalog(ns) : ns \in SeqsUpTo(NamePool, MaxCatalog)}
    \cup {MakeCatalog(<<Repetitive>>), MakeCatalog(<<Repetitive, <<"a", "b">>>>)}

\* a scheme name longer than a sheet name may be, with a character that
\* is invalid in one
LongName == [i \in 1..(SheetMaxLen + 2) |-> IF i = 5 THEN "/" ELSE "z"]

RunCatalog == << [schemeCode |-> 101, schemeName |-> <<"a", "b">>],
                 [schemeCode |-> 102, schemeName |-> <<"a", "b", "c">>],
                 [schemeCode |-> 12, schemeName |-> LongName] >>

RunQueryPool == { <<"a", "b">>, <<"z", "z">>, <<"q">> }

\* one raw point of details['data']: date is <<day>> or NaT, nav is a
\* number or NaN (a string that is not numeric)
Point(d, v) == [date |-> <<d>>, nav |-> FInt(v)]

\* fetch_nifty, lines 121-128: one row per bar, with its % Change
Bar(d, open, close) ==
    [date |-> d, Open |-> FInt(open), Close |-> FInt(close),
     pct |-> NiftyPct(FInt(open), FInt(close))]

Navs == {9, 10, 11}
Dates == (start_date - 2)..(start_date + 2)

\* histories as the API returns them: newest first, dates distinct
Histories ==
    {h \in UNION {[1..k -> [date : {<<d>> : d \in Dates},
                            nav : {FInt(v) : v \in Navs}]] : k \in 1..MaxPoints} :
        \A i \in 1..(Len(h) - 1) : h[i].date[1] > h[i + 1].date[1]}

BarOn(d) == Bar(d, 10, 10 + ((d + 1) % 3) - 1)

\* benchmark frames: any set of trading days of the window, ascending
Benches ==
    {SortByDate(SelectSeq([i \in 1..3 |-> BarOn(start_date + i - 1)],
                          LAMBDA b : b.date \in D)) :
        D \in SUBSET (start_date..(start_date + 2))}

\* histories a fetch may return in a run of analyze_funds
\* three points in the window
ThreePoints ==
    << Point(start_date + 3, 9), Point(start_date + 2, 11),
       Point(start_date + 1, 10) >>

RunHistories ==
    { \* all points older than the window
      << Point(start_date - 1, 11), Point(start_date - 2, 10) >>,
      \* one point in the window, one before it
      << Point(start_date + 1, 11), Point(start_date - 1, 10) >>,
      ThreePoints,
      \* four points in the window, out of order, with rows that do not parse
      << Point(start_date + 2, 12), [date |-> NaT, nav |-> FInt(10)],
         Point(start_date + 4, 9), [date |-> <<start_date + 1>>, nav |-> NaN],
         Point(start_date + 3, 9), Point(start_date, 10) >> }

RunBenches ==
    { << Bar(start_date + 1, 10, 11), Bar(start_date + 2, 10, 11),
         Bar(start_date + 3, 10, 9), Bar(start_date + 4, 10, 10) >>,
      << Bar(start_date + 3, 10, 9) >> }

\* the 'meta' of a response
HouseMeta == << << <<"fund_house", <<"H">>>> >> >>

\* r.json() of fetch_mf_details: the histories with a fund house, the last
\* of them also with a meta without one and with a null meta
RunResponses ==
    {[meta |-> HouseMeta, data |-> h] : h \in RunHistories}
    \cup {[meta |-> md, data |-> ThreePoints] : md \in {<<EmptyDict>>, None}}

\* lines 152-158, the response holds points
FetchData ==
    /\ pc = "fetch"
    /\ \E details \in RunResponses :
           /\ meta' = details.meta
           /\ data' = details.data
    /\ pc' = "frame"
    /\ UNCHANGED <<mf_list, nifty_df, fund_queries, qi, best, score, merged,
                   m, summary_rows, sheets, log>>

\* rows of an aligned frame: start prices 10, the end prices of the fund
\* and of the benchmark as listed (both up, both down, both flat, the fund
\* flat on an up day, and the two moving apart)
RowEnds == {<<11, 11>>, <<9, 9>>, <<10, 10>>, <<10, 11>>, <<11, 9>>, <<9, 11>>}

Row(d, fs, fe, o, c) ==
    [date |-> d, FundStart |-> FInt(fs), FundEnd |-> FInt(fe),
     FundPct |-> FundPct(FInt(fs), FInt(fe)),
     NiftyStart |-> FInt(o), NiftyEnd |-> FInt(c),
     NiftyPct |-> NiftyPct(FInt(o), FInt(c))]

\* frames whose metrics lie next to a threshold:
\*  - a correlation of about -0.1995, which rounds to -0.2
\*  - an up capture of 100.025, which rounds to 100.0
\*  - an up capture of 75 / 83.33333333333334 * 100 = 89.99999999999999
\*  - a fund change that is the same double on each of three rows, and
\*    differs from the mean of the three as computed
\*  - a fund change of -0.0 (a negative NAV that stays) on an up day
BoundaryFrames ==
    { << Row(start_date + 1, 10, 7, 10, 9), Row(start_date + 2, 10, 7, 10, 12),
         Row(start_date + 3, 10, 9, 10, 9), Row(start_date + 4, 10, 12, 10, 10) >>,
      << Row(start_date + 1, 4000, 8001, 1, 2),
         Row(start_date + 2, 10, 9, 2, 1) >>,
      << Row(start_date + 1, 4, 7, 6, 11), Row(start_date + 2, 5, 10, 9, 4) >>,
      << Row(start_date + 1, 9, 7, 10, 11), Row(start_date + 2, 18, 14, 10, 9),
         Row(start_date + 3, 27, 21, 10, 12) >>,
      << Row(start_date + 1, -10, -10, 100, 101) >> }

Frames ==
    {[i \in 1..Len(e) |-> Row(start_date + i, 10, e[i][1], 10, e[i][2])] :
        e \in SeqsUpTo(RowEnds, MaxRows) \ {<<>>}}
    \cup BoundaryFrames

----------------------------------------------------------------------------
(* Specifications.                                                         *)

NoMetrics == [corr |-> NaN, with_pct |-> NaN, up_capture |-> NaN,
              down_capture |-> NaN, behavior |-> "", tolerance |-> ""]

Locals0 ==
    /\ best = None
    /\ score = RatInt(0)
    /\ meta = <<EmptyDict>>
    /\ data = <<>>
    /\ merged = <<>>
    /\ m = NoMetrics

\* a run of analyze_funds
Init ==
    /\ mf_list = RunCatalog
    /\ nifty_df \in RunBenches
    /\ fund_queries \in SeqsUpTo(RunQueryPool, MaxQueries)
    /\ qi = 1
    /\ pc = IF fund_queries = <<>> THEN "summary" ELSE "match"
    /\ Locals0
    /\ summary_rows = <<>>
    /\ sheets = <<>>
    /\ log = <<>>

Next ==
    \/ Match \/ NoMatch
    \/ FetchError \/ FetchNoData \/ FetchData
    \/ WindowEmpty \/ AlignEmpty \/ Aligned
    \/ Analyse \/ AnalyseError
    \/ WriteDetail \/ WriteError
    \/ WriteSummary

Spec == Init /\ [][Next]_vars

\* find_best_scheme on every catalog and query of the pools
InitMatch ==
    /\ mf_list \in Catalogs
    /\ nifty_df = <<>>
    /\ fund_queries \in {<<x>> : x \in QueryPool}
    /\ qi = 1
    /\ pc = "match"
    /\ Locals0
    /\ summary_rows = <<>>
    /\ sheets = <<>>
    /\ log = <<>>

NextMatch == Match \/ NoMatch

SpecMatch == InitMatch /\ [][NextMatch]_vars

\* the aligning stage on every history and benchmark frame of the pools
InitAlign ==
    /\ mf_list = RunCatalog
    /\ nifty_df \in Benches
    /\ fund_queries = << <<"a", "b">> >>
    /\ qi = 1
    /\ pc = "frame"
    /\ best = <<RunCatalog[1]>>
    /\ score = RatInt(1)
    /\ meta = HouseMeta
    /\ data \in Histories
    /\ merged = <<>>
    /\ m = NoMetrics
    /\ summary_rows = <<>>
    /\ sheets = <<>>
    /\ log = <<>>

NextAlign == WindowEmpty \/ AlignEmpty \/ Aligned

SpecAlign == InitAlign /\ [][NextAlign]_vars

\* the metrics stage on every aligned frame of the pool
InitMetrics ==
    /\ mf_list = RunCatalog
    /\ nifty_df = <<>>
    /\ fund_queries = << <<"a", "b">> >>
    /\ qi = 1
    /\ pc = "metrics"
    /\ best = <<RunCatalog[1]>>
    /\ score = RatInt(1)
    /\ meta = HouseMeta
    /\ data = <<>>
    /\ merged \in Frames
    /\ m = NoMetrics
    /\ summary_rows = <<>>
    /\ sheets = <<>>
    /\ log = <<>>

NextMetrics == Analyse

SpecMetrics == InitMetrics /\ [][NextMetrics]_vars

----------------------------------------------------------------------------
(* Properties of find_best_scheme (checked under SpecMatch).               *)

\* find_best_scheme has run on the query
Matched == pc # "match"

Query == fund_queries[1]

\* catalog positions whose name contains x, ignoring case
Containing(x) ==
    {i \in 1..Len(mf_list) : Contains(Lower(x), Lower(mf_list[i].schemeName))}

Sim(i) == similar(Query, mf_list[i].schemeName)

\* the first position of I with the greatest similarity to the query
FirstMax(I) ==
    CHOOSE i \in I : /\ \A j \in I : RatLe(Sim(j), Sim(i))
                     /\ \A j \in I : j < i => RatLt(Sim(j), Sim(i))

InUnitInterval(x) == RatLe(RatInt(0), x) /\ RatLe(x, RatInt(1))

\* the substring rule, the hits being the entries that contain x
SubstringRule(x) ==
    LET hits == Containing(x)
    IN  hits # {} =>
          /\ best # None
          /\ Cardinality(hits) = 1 =>
                /\ best[1] = mf_list[CHOOSE i \in hits : TRUE]
                /\ score = RatInt(1)
          /\ Cardinality(hits) > 1 =>
                /\ best[1] = mf_list[FirstMax(hits)]
                /\ score = Sim(FirstMax(hits))
          /\ InUnitInterval(score)
          /\ (\E i \in 1..Len(mf_list) :
                 Lower(mf_list[i].schemeName) = Lower(Query))
                => score = RatInt(1)

\* the fuzzy rule, applying when no entry contains x
FuzzyRule(x) ==
    LET all == 1..Len(mf_list)
    IN  Containing(x) = {} =>
          IF \E i \in all : RatLt(RatInt(0), Sim(i))
          THEN /\ best = <<mf_list[FirstMax(all)]>>
               /\ score = Sim(FirstMax(all))
          ELSE /\ best = None
               /\ score = RatInt(0)

\* C4 as stated: the hits are the entries whose name contains the query
\* itself (ignoring case); one hit is returned with score 1.0, of several
\* the first of greatest similarity with that similarity; the score is in
\* [0,1] and is 1.0 for a query equal to a name
C4_AsStated == Matched => SubstringRule(Query)

\* C4: the same, the hits being the entries whose lower-cased name contains
\* the lower-cased query with its leading and trailing whitespace removed
C4_SubstringPath == Matched => SubstringRule(Strip(Query))

\* several hits, two different names tie for the greatest similarity
C4_Witness ==
    /\ Matched
    /\ Cardinality(Containing(Strip(Query))) > 1
    /\ \E i, j \in Containing(Strip(Query)) :
          /\ i < j
          /\ mf_list[i].schemeName # mf_list[j].schemeName
          /\ Sim(i) = Sim(j)
          /\ i = FirstMax(Containing(Strip(Query)))
          /\ best = <<mf_list[i]>>

\* C5 as stated: when no name contains the query itself (ignoring case) the
\* result is the first entry of greatest similarity with that similarity,
\* and none when no similarity exceeds 0
C5_AsStated == Matched => FuzzyRule(Query)

\* C5: the same, for the lower-cased query with its leading and trailing
\* whitespace removed
C5_FuzzyPath == Matched => FuzzyRule(Strip(Query))

\* no hit, two different names tie for the greatest similarity, above 0
C5_Witness ==
    /\ Matched
    /\ Containing(Strip(Query)) = {}
    /\ \E i, j \in 1..Len(mf_list) :
          /\ i < j
          /\ mf_list[i].schemeName # mf_list[j].schemeName
          /\ Sim(i) = Sim(j)
          /\ RatLt(RatInt(0), Sim(i))
          /\ i = FirstMax(1..Len(mf_list))
          /\ best = <<mf_list[i]>>

----------------------------------------------------------------------------
(* Properties of the aligning stage (checked under SpecAlign).             *)

\* lines 171-186 have run on the current history
AlignRan ==
    \/ pc = "metrics"
    \/ log # <<>> /\ log[Len(log)].outcome = "no_overlap"

\* the fund series: the points of the history that parse, as <<day, NAV>>
FundPoints ==
    {<<data[i].date[1], data[i].nav>> :
        i \in {k \in 1..Len(data) : data[k].date # NaT /\ ~IsNaN(data[k].nav)}}

FundDates == {p[1] : p \in FundPoints}
BarDates == {nifty_df[i].date : i \in 1..Len(nifty_df)}
UniqueDates ==
    /\ Cardinality(FundDates) = Cardinality(FundPoints)
    /\ Cardinality(BarDates) = Len(nifty_df)

NavOn(d) == (CHOOSE p \in FundPoints : p[1] = d)[2]

HasPredecessor(d) == \E e \in FundDates : e < d

\* the value of the point chronologically preceding day d in the series
PrevNav(d) ==
    NavOn(CHOOSE e \in FundDates :
              e < d /\ \A g \in FundDates : g < d => g <= e)

PctOf(start, end) == FMul(FDiv(FSub(end, start), start), FInt(100))

\* C2 as stated: with a point before the window, the first point in the
\* window has Fund Start equal to that earlier point's value and a defined
\* change, so its row is aligned when its date has a benchmark bar
C2_AsStated ==
    AlignRan =>
      \A d \in FundDates :
         ( /\ d >= start_date
           /\ \A e \in FundDates : e >= start_date => d <= e
           /\ HasPredecessor(d)
           /\ d \in BarDates )
         => \E i \in 1..Len(merged) :
               /\ merged[i].date = d
               /\ merged[i].FundStart = PrevNav(d)
               /\ merged[i].FundPct = PctOf(PrevNav(d), NavOn(d))

\* the example of the claim: points d0, d1, d2 and bars on d1, d2 only
ExampleHistory ==
    << Point(start_date + 2, 9), Point(start_date + 1, 11),
       Point(start_date, 10) >>

\* C3: every aligned row has a date of both series, both changes defined,
\* Fund Start equal to the value of the chronologically preceding fund
\* point, and the bar's open and close; rows ascend by date; for a series
\* inside the window the rows are exactly the dates with a bar and a
\* predecessor (the example gives 2 rows)
C3_AlignedRows ==
    (AlignRan /\ UniqueDates) =>
      /\ \A i \in 1..Len(merged) :
            /\ merged[i].date \in FundDates \cap BarDates
            /\ ~IsNaN(merged[i].FundPct)
            /\ ~IsNaN(merged[i].NiftyPct)
            /\ HasPredecessor(merged[i].date)
            /\ merged[i].FundStart = PrevNav(merged[i].date)
            /\ merged[i].FundEnd = NavOn(merged[i].date)
            /\ merged[i].FundPct = PctOf(merged[i].FundStart, merged[i].FundEnd)
            /\ \E k \in 1..Len(nifty_df) :
                  /\ nifty_df[k].date = merged[i].date
                  /\ nifty_df[k].Open = merged[i].NiftyStart
                  /\ nifty_df[k].Close = merged[i].NiftyEnd
                  /\ merged[i].NiftyPct
                       = PctOf(merged[i].NiftyStart, merged[i].NiftyEnd)
      /\ \A i, j \in 1..Len(merged) : i < j => merged[i].date < merged[j].date
      /\ (\A d \in FundDates : d >= start_date) =>
            {merged[i].date : i \in 1..Len(merged)}
              = {d \in FundDates \cap BarDates : HasPredecessor(d)}
      /\ (data = ExampleHistory
            /\ BarDates = {start_date + 1, start_date + 2}) => Len(merged) = 2

\* the example: two rows, each starting at the prior point's value
C3_Witness ==
    /\ AlignRan
    /\ data = ExampleHistory
    /\ BarDates = {start_date + 1, start_date + 2}
    /\ Len(merged) = 2
    /\ merged[1].FundStart = FInt(10)
    /\ merged[2].FundStart = FInt(11)

----------------------------------------------------------------------------
(* Properties of the metrics stage (checked under SpecMetrics).            *)

\* lines 192-241 have run on the current aligned frame
Analysed == pc = "write"

Record == summary_rows[Len(summary_rows)]

UpPart == SelectSeq(merged, LAMBDA r : FLt(Zero, r.NiftyPct))
DownPart == SelectSeq(merged, LAMBDA r : FLt(r.NiftyPct, Zero))

\* the mean of a column, its values added in row order
RECURSIVE Total(_)
Total(col) ==
    IF col = <<>> THEN Zero
    ELSE FAdd(Total(SubSeq(col, 1, Len(col) - 1)), col[Len(col)])

MeanOf(col) == FDiv(Total(col), FInt(Len(col)))

BehaviorLabels(neutral) ==
    {"With Market", "Against Market", neutral, "Insufficient Data"}

\* the label rule of the claim, on the unrounded correlation
BehaviorRule(neutral) ==
    /\ Record.Behavior = m.behavior
    /\ m.behavior =
         IF IsNaN(m.corr) THEN "Insufficient Data"
         ELSE IF FLe(FDiv(FInt(6), FInt(10)), m.corr) THEN "With Market"
         ELSE IF FLe(m.corr, FDiv(FInt(-2), FInt(10))) THEN "Against Market"
         ELSE neutral
    /\ m.behavior \in BehaviorLabels(neutral)
    /\ Record.Correlation = None <=> IsNaN(m.corr)

\* C6 as stated: the label is decided by the unrounded correlation, the
\* label between the thresholds being "Low/Neutral Correlation"
C6_AsStated == Analysed => BehaviorRule("Low/Neutral Correlation")

\* C6: the same, the label between the thresholds being "Low/Neutral Corr"
C6_Behavior == Analysed => BehaviorRule("Low/Neutral Corr")

\* the correlation lies above -0.2 and is emitted, rounded, as -0.2: the
\* label is the one of the unrounded value
C6_Witness ==
    /\ Analysed
    /\ FLt(FDiv(FInt(-2), FInt(10)), m.corr)
    /\ Record.Correlation = FDiv(FInt(-2), FInt(10))
    /\ Record.Behavior = "Low/Neutral Corr"

\* C7: the tolerance label is "Unknown" exactly when a capture is
\* undefined, otherwise "High" for up > 100 and down < 100, else "Low" for
\* up < 90 and down > 120, else "Medium", on the unrounded captures
C7_Tolerance ==
    Analysed =>
      /\ Record.MarketTolerance = m.tolerance
      /\ m.tolerance = "Unknown"
           <=> (IsNaN(m.up_capture) \/ IsNaN(m.down_capture))
      /\ m.tolerance =
           IF IsNaN(m.up_capture) \/ IsNaN(m.down_capture) THEN "Unknown"
           ELSE IF FLt(FInt(100), m.up_capture)
                   /\ FLt(m.down_capture, FInt(100)) THEN "High"
           ELSE IF FLt(m.up_capture, FInt(90))
                   /\ FLt(FInt(120), m.down_capture) THEN "Low"
           ELSE "Medium"

\* the up capture exceeds 100 and is emitted, rounded, as 100.0: the label
\* is "High"
C7_Witness ==
    /\ Analysed
    /\ FLt(FInt(100), m.up_capture)
    /\ Record.UpCapture = FInt(100)
    /\ Record.MarketTolerance = "High"

IsNumber(x) == Len(x) = 3 /\ IsFinite(x)

\* C8: a capture is undefined when its partition is empty or the benchmark
\* mean over it is 0, and is otherwise 100 * mean fund change / mean
\* benchmark change over the partition (absolute values for down); an
\* undefined capture is emitted as None and makes the tolerance "Unknown",
\* a defined one is emitted as a number
C8_Captures ==
    Analysed =>
      /\ m.up_capture =
           IF UpPart = <<>> \/ FEq(MeanOf(NiftyCol(UpPart)), Zero) THEN NaN
           ELSE FMul(FInt(100), FDiv(MeanOf(FundCol(UpPart)),
                                     MeanOf(NiftyCol(UpPart))))
      /\ m.down_capture =
           IF DownPart = <<>> \/ FEq(MeanOf(NiftyCol(DownPart)), Zero) THEN NaN
           ELSE FMul(FInt(100), FDiv(FAbs(MeanOf(FundCol(DownPart))),
                                     FAbs(MeanOf(NiftyCol(DownPart)))))
      /\ IsNaN(m.up_capture) => Record.UpCapture = None
      /\ IsNaN(m.down_capture) => Record.DownCapture = None
      /\ ~IsNaN(m.up_capture) => IsNumber(Record.UpCapture)
      /\ ~IsNaN(m.down_capture) => IsNumber(Record.DownCapture)
      /\ (IsNaN(m.up_capture) \/ IsNaN(m.down_capture))
           => Record.MarketTolerance = "Unknown"

\* no down day, and a fund change of -0.0 on the up day: the down capture
\* is missing while the up capture is a genuine zero, 0.0
C8_Witness ==
    /\ Analysed
    /\ DownPart = <<>>
    /\ FundCol(UpPart) = <<NegZero>>
    /\ Record.DownCapture = None
    /\ Record.UpCapture = Zero
    /\ Record.MarketTolerance = "Unknown"

IdenticalChanges == FundCol(merged) = NiftyCol(merged)

\* the metrics of the claim, the correlation being the computed one
IdenticalMetrics(corr) ==
    /\ corr
    /\ Record.Correlation = FInt(1)
    /\ m.with_pct = FInt(100)
    /\ Record.WithMarketPct = FInt(100)
    /\ m.up_capture = FInt(100)
    /\ m.down_capture = FInt(100)
    /\ Record.UpCapture = FInt(100)
    /\ Record.DownCapture = FInt(100)
    /\ Record.Behavior = "With Market"
    /\ Record.MarketTolerance = "Medium"

\* 1 - 2^-50
NearOne == FSub(FInt(1), <<1, <<1>>, -50>>)

\* C9 as stated: identical change sequences give correlation 1.0, agreement
\* 100, both captures 100, "With Market" and "Medium"
C9_AsStated == (Analysed /\ IdenticalChanges) => IdenticalMetrics(m.corr = FInt(1))

\* C9: for identical sequences that hold at least one positive and at least
\* one negative change, the correlation is emitted as 1.0 and is, before
\* rounding, between 1 - 2^-50 and 1; agreement 100, both captures 100,
\* "With Market" and "Medium"
C9_Identical ==
    (Analysed /\ IdenticalChanges /\ UpPart # <<>> /\ DownPart # <<>>)
      => IdenticalMetrics(FLe(NearOne, m.corr) /\ FLe(m.corr, FInt(1)))

\* three identical changes, up and down: correlation emitted as 1.0
C9_Witness ==
    /\ Analysed
    /\ IdenticalChanges
    /\ UpPart # <<>>
    /\ DownPart # <<>>
    /\ Len(merged) = 3
    /\ m.with_pct = FInt(100)
    /\ Record.Correlation = FInt(1)
    /\ Record.MarketTolerance = "Medium"

----------------------------------------------------------------------------
(* Properties of a run of analyze_funds (checked under Spec).              *)

Finished == pc \in {"summary", "done"}

\* positions of the processed queries whose aligned frame had rows
WithRows == {i \in 1..Len(log) : log[i].rows > 0}

SkipOutcomes == {"no_match", "no_nav_data", "no_points", "no_overlap"}

\* the k-th processed query with rows, in order
RECURSIVE NthOf(_, _)
NthOf(I, k) ==
    IF k = 1 THEN CHOOSE i \in I : \A j \in I : i <= j
    ELSE NthOf(I \ {CHOOSE i \in I : \A j \in I : i <= j}, k - 1)

\* C1 as stated: the queries are processed one by one in input order
\* whatever the outcome of each, the run reaches the end of the list, a
\* skipped query adds no summary record, and the summary records are those
\* of the queries whose aligned frame had rows, in order
C1_AsStated ==
    /\ Len(log) = qi - 1
    /\ Len(log) <= Len(fund_queries)
    /\ \A i \in 1..Len(log) : log[i].query = fund_queries[i]
    /\ Finished => Len(log) = Len(fund_queries)
    /\ \A i \in 1..Len(log) : log[i].outcome \in SkipOutcomes => log[i].rows = 0
    /\ Len(summary_rows)
         = Cardinality(WithRows) + (IF pc = "write" THEN 1 ELSE 0)
    /\ \A k \in 1..Len(summary_rows) :
          k <= Cardinality(WithRows) =>
            /\ summary_rows[k].Query = fund_queries[NthOf(WithRows, k)]
            /\ summary_rows[k].DataPoints = log[NthOf(WithRows, k)].rows

DetailSheets == DOMAIN sheets \ {SummarySheet, NoDataSheet}

\* C10 as stated: after a run there are as many detail tables as summary
\* records, each record having a table of its own
C10_AsStated ==
    pc = "done" =>
      /\ Cardinality(DetailSheets) = Len(summary_rows)
      /\ \A i, j \in 1..Len(summary_rows) :
            i # j => SheetName([schemeCode |-> summary_rows[i].SchemeCode,
                                schemeName |-> summary_rows[i].MatchedScheme])
                     # SheetName([schemeCode |-> summary_rows[j].SchemeCode,
                                  schemeName |-> summary_rows[j].MatchedScheme])

====
